---- MODULE Spec2Model ----
(***************************************************************************)
(* Model of waves_op.optimization.heuristic.greedy.GreedyBuilder: the      *)
(* greedy allocation of boxes to capacity-bounded waves                    *)
(* (build_initial_waves, fill_wave_from_sku_info), the pair refinement     *)
(* (cross_swap_boxes, try_swap_boxes_across_waves) and refine_waves, and   *)
(* WavesProblemSolver.solve / save_result around the build.                *)
(*                                                                         *)
(* A Box is a record [box_id, content]; content is the ordered list of     *)
(* ItemInBox records [sku, quantity].  Waves and SkuInfo entries hold box  *)
(* ids; the ids of an input are distinct (io.build_boxes_and_items makes   *)
(* one Box per unique id), so the dataclass equality of two boxes is the   *)
(* equality of their ids.                                                  *)
(***************************************************************************)
EXTENDS Integers, Sequences, FiniteSets, TLC

\* ------------------------------------------------------------------------
\* Bounds of the model
\* ------------------------------------------------------------------------
MaxBoxes == 3
MaxUnits == 4
MaxPairBoxes == 4
MaxPairUnits == 5
MaxCapacity == 3
MaxScans == 2

SKUS == <<"A", "B", "C">>

VARIABLES
    boxes,            \* self.boxes: the input list of Box
    max_capacity,     \* self.max_capacity
    sort_method,      \* self.sort_method
    aggregation_method, \* self.aggregation_method
    skus_info_copy,   \* the working list of SkuInfo of build_initial_waves
    allocated_boxes,  \* self.allocated_boxes
    allocated_skus,   \* self.allocated_skus
    waves,            \* self.waves
    previous_wave,    \* local previous_wave of build_initial_waves
    next_wave,        \* local next_wave of build_initial_waves
    use_next_wave,    \* local use_next_wave
    previous_sku,     \* local previous_sku
    sku_info,         \* local sku_info (the entry popped last)
    pc,               \* position in build_waves / the error raised
    last_call,        \* the last method applied, with its arguments and result
    solver_waves,     \* WavesProblemSolver.waves: "None", or "waves", the very
                      \* list self.waves of the builder that build_waves returns
    sheet             \* the last call of save_result and the rows of the sheet

vars == <<boxes, max_capacity, sort_method, aggregation_method, skus_info_copy,
          allocated_boxes, allocated_skus, waves, previous_wave, next_wave,
          use_next_wave, previous_sku, sku_info, pc, last_call, solver_waves,
          sheet>>

\* ------------------------------------------------------------------------
\* Sequence helpers
\* ------------------------------------------------------------------------
Range(s) == {s[i] : i \in 1..Len(s)}

\* a local variable: the value v, computed once, under the name Op gives it
With(v, Op(_)) == Op(v)

InSeq(x, s) == \E i \in 1..Len(s) : s[i] = x

RECURSIVE SumSeq(_)
SumSeq(s) == IF s = <<>> THEN 0 ELSE Head(s) + SumSeq(Tail(s))

\* the distinct elements of s, in order of first occurrence
\* (the key order of a dict filled in the order of s)
RECURSIVE Dedup(_)
Dedup(s) ==
    IF s = <<>> THEN <<>>
    ELSE With(Dedup(SubSeq(s, 1, Len(s) - 1)),
              LAMBDA r : IF InSeq(s[Len(s)], r) THEN r ELSE Append(r, s[Len(s)]))

RECURSIVE Flatten(_)
Flatten(ss) == IF ss = <<>> THEN <<>> ELSE Head(ss) \o Flatten(Tail(ss))

\* ------------------------------------------------------------------------
\* models/box.py
\* ------------------------------------------------------------------------
BoxOf(id) == CHOOSE b \in Range(boxes) : b.box_id = id

\* Box.total
BoxTotal(id) ==
    With(BoxOf(id).content, LAMBDA c : SumSeq([i \in 1..Len(c) |-> c[i].quantity]))

\* Box.skus
BoxSkus(id) ==
    With(BoxOf(id).content, LAMBDA c : [i \in 1..Len(c) |-> c[i].sku])

TotalOfBoxes(ids) == SumSeq([i \in 1..Len(ids) |-> BoxTotal(ids[i])])

\* quantity of sku in one box
BoxSkuQuantity(id, sku) ==
    With(BoxOf(id).content, LAMBDA c :
         SumSeq([i \in 1..Len(c) |-> IF c[i].sku = sku THEN c[i].quantity ELSE 0]))

\* SkuInfo.total
InfoTotal(info) == TotalOfBoxes(info.boxes)

\* SkuInfo.total_sku
InfoTotalSku(info) ==
    SumSeq([i \in 1..Len(info.boxes) |-> BoxSkuQuantity(info.boxes[i], info.sku)])

\* SkuInfo.all_skus (a set: list(set(...)) has no defined order)
InfoAllSkus(info) == UNION {Range(BoxSkus(info.boxes[i])) : i \in 1..Len(info.boxes)}

\* any(any(sku in box.skus for sku in b.skus) for b in list_of_boxes)
SharesSku(id, ids) ==
    \E i \in 1..Len(ids) : Range(BoxSkus(id)) \cap Range(BoxSkus(ids[i])) # {}

\* ------------------------------------------------------------------------
\* models/wave.py
\* ------------------------------------------------------------------------
Wave(index, bxs) == [index |-> index, boxes |-> bxs]

NoWave == [index |-> -1, boxes |-> <<>>]

\* Wave.total_items
TotalItems(w) == TotalOfBoxes(w.boxes)

\* Wave.remaining_capacity
RemainingCapacity(w) == max_capacity - TotalItems(w)

\* keys of Wave.sku_count, in insertion order
SkuCountKeys(w) == Dedup(Flatten([i \in 1..Len(w.boxes) |-> BoxSkus(w.boxes[i])]))

\* Wave.sku_count[sku] (a defaultdict: 0 for an absent sku)
SkuCount(w, sku) ==
    SumSeq([i \in 1..Len(w.boxes) |-> BoxSkuQuantity(w.boxes[i], sku)])

\* ------------------------------------------------------------------------
\* metrics.py
\* ------------------------------------------------------------------------
\* keys of get_sku_distribution_dict(ws), in insertion order
DistributionKeys(ws) == Dedup(Flatten([i \in 1..Len(ws) |-> SkuCountKeys(ws[i])]))

\* get_sku_distribution_dict(ws)[sku]
DistributionCount(ws, sku) ==
    Cardinality({i \in 1..Len(ws) : InSeq(sku, SkuCountKeys(ws[i]))})

\* compute_sku_total_distribution
compute_sku_total_distribution(ws) ==
    With(DistributionKeys(ws), LAMBDA ks :
         SumSeq([i \in 1..Len(ks) |-> DistributionCount(ws, ks[i]) - 1]))

\* ------------------------------------------------------------------------
\* Similarity values: a float is kept as an exact fraction n/d (d > 0) or
\* as +infinity
\* ------------------------------------------------------------------------
Frac(n, d) == [inf |-> FALSE, n |-> n, d |-> d]

Infinity == [inf |-> TRUE, n |-> 1, d |-> 1]

FracLess(a, b) ==
    IF a.inf THEN FALSE
    ELSE IF b.inf THEN TRUE
    ELSE a.n * b.d < b.n * a.d

FracAdd(a, b) ==
    IF a.inf \/ b.inf THEN Infinity
    ELSE Frac(a.n * b.d + b.n * a.d, a.d * b.d)

FracDiv(a, k) == IF a.inf THEN Infinity ELSE Frac(a.n, a.d * k)

RECURSIVE FracSum(_)
FracSum(v) == IF v = <<>> THEN Frac(0, 1) ELSE FracAdd(Head(v), FracSum(Tail(v)))

RECURSIVE FracMax(_)
FracMax(v) ==
    IF Len(v) = 1 THEN v[1]
    ELSE With(FracMax(Tail(v)),
              LAMBDA m : IF FracLess(Head(v), m) THEN m ELSE Head(v))

\* ascending sort of a vector of fractions
RECURSIVE FracSort(_)
FracSort(v) ==
    IF v = <<>> THEN <<>>
    ELSE With(FracSort(SubSeq(v, 1, Len(v) - 1)), LAMBDA r :
         With(Cardinality({i \in 1..Len(r) : ~FracLess(v[Len(v)], r[i])}), LAMBDA k :
              SubSeq(r, 1, k) \o <<v[Len(v)]>> \o SubSeq(r, k + 1, Len(r))))

\* numpy.median
FracMedian(v) ==
    With(FracSort(v), LAMBDA s :
         IF Len(s) % 2 = 1 THEN s[(Len(s) + 1) \div 2]
         ELSE FracDiv(FracAdd(s[Len(s) \div 2], s[Len(s) \div 2 + 1]), 2))

\* Wave.compute_sku_similarity
compute_sku_similarity(w, sku, bxs) ==
    With(TotalItems(w), LAMBDA wave_total :
    With(SkuCount(w, sku), LAMBDA in_wave :
         IF wave_total = in_wave THEN Infinity
         ELSE Frac(SumSeq([i \in 1..Len(bxs) |-> BoxSkuQuantity(bxs[i], sku)])
                       + in_wave,
                   wave_total - in_wave)))

RECURSIVE SetToSeq(_)
SetToSeq(S) ==
    IF S = {} THEN <<>>
    ELSE With(CHOOSE y \in S : TRUE, LAMBDA x : <<x>> \o SetToSeq(S \ {x}))

\* Wave.get_similarity_vector
get_similarity_vector(w, info) ==
    With(SetToSeq(InfoAllSkus(info)), LAMBDA ss :
         [i \in 1..Len(ss) |-> compute_sku_similarity(w, ss[i], info.boxes)])

\* ------------------------------------------------------------------------
\* GreedyBuilder: the priority key of a SkuInfo entry
\* ------------------------------------------------------------------------
B2N(b) == IF b THEN 1 ELSE 0

\* apply_cluster_sorting_method
apply_cluster_sorting_method(info, prev_sku, last_skus) ==
    << B2N(InSeq(info.sku, last_skus)),
       B2N(info.sku = prev_sku),
       B2N(prev_sku \in InfoAllSkus(info)),
       InfoTotal(info),
       InfoTotalSku(info),
       Len(info.boxes) >>

\* apply_similarity_sorting_method with aggregation_functions_map
apply_similarity_sorting_method(info, w, agg) ==
    With(get_similarity_vector(w, info), LAMBDA v :
         CASE agg = "max" -> FracMax(v)
           [] agg = "mean" -> FracDiv(FracSum(v), Len(v))
           [] agg = "median" -> FracMedian(v))

\* tuple comparison a > b
RECURSIVE TupleGreater(_, _)
TupleGreater(a, b) ==
    IF a = <<>> THEN FALSE
    ELSE IF Head(a) # Head(b) THEN Head(a) > Head(b)
    ELSE TupleGreater(Tail(a), Tail(b))

\* apply_sorting_method: key(x) > key(y) under the configured sort method
KeyGreater(x, y, w, prev_sku, method, agg) ==
    IF method = "cluster"
    THEN TupleGreater(apply_cluster_sorting_method(x, prev_sku, SkuCountKeys(w)),
                      apply_cluster_sorting_method(y, prev_sku, SkuCountKeys(w)))
    ELSE FracLess(apply_similarity_sorting_method(y, w, agg),
                  apply_similarity_sorting_method(x, w, agg))

\* skus_info_copy.sort(key=..., reverse=True): stable, descending
RECURSIVE SortSkusInfo(_, _, _, _, _)
SortSkusInfo(infos, w, prev_sku, method, agg) ==
    IF infos = <<>> THEN <<>>
    ELSE With(SortSkusInfo(SubSeq(infos, 1, Len(infos) - 1), w, prev_sku, method, agg),
              LAMBDA r :
         With(Cardinality({i \in 1..Len(r) :
                             ~KeyGreater(infos[Len(infos)], r[i], w, prev_sku,
                                         method, agg)}),
              LAMBDA k :
              SubSeq(r, 1, k) \o <<infos[Len(infos)]>> \o SubSeq(r, k + 1, Len(r))))

\* build_sku_info
build_sku_info(bxs) ==
    With(Dedup(Flatten([i \in 1..Len(bxs) |->
                 [j \in 1..Len(bxs[i].content) |-> bxs[i].content[j].sku]])),
         LAMBDA skus :
         [k \in 1..Len(skus) |->
            [sku |-> skus[k],
             boxes |-> Dedup(SelectSeq([i \in 1..Len(bxs) |-> bxs[i].box_id],
                          LAMBDA id : \E i \in 1..Len(bxs) :
                              /\ bxs[i].box_id = id
                              /\ \E j \in 1..Len(bxs[i].content) :
                                    bxs[i].content[j].sku = skus[k]))]])

\* ------------------------------------------------------------------------
\* GreedyBuilder.fill_wave_from_sku_info (with allocate_box_in_wave)
\* ------------------------------------------------------------------------
OpenNextWave_skips(prev) == Wave(prev.index + 2, <<>>)

\* the next_wave opened by fill_wave_from_sku_info
OpenNextWave(prev) == Wave(prev.index + 1, <<>>)

FitsInWave_ignores_load(total, w) == total <= max_capacity

\* total_of_boxes <= wave.remaining_capacity (lines 169, 171)
FitsInWave(total, w) == total <= RemainingCapacity(w)

\* allocate_box_in_wave without line 93: the box is not recorded as allocated
RECURSIVE allocate_boxes_in_wave_unrecorded(_, _, _)
allocate_boxes_in_wave_unrecorded(bxs, w, allocated) ==
    IF bxs = <<>> THEN [wave |-> w, allocated |-> allocated]
    ELSE IF ~InSeq(Head(bxs), allocated)
         THEN allocate_boxes_in_wave_unrecorded(Tail(bxs),
                  Wave(w.index, Append(w.boxes, Head(bxs))),
                  allocated)
         ELSE allocate_boxes_in_wave_unrecorded(Tail(bxs), w, allocated)

\* allocate_box_in_wave applied to each box of bxs in turn
RECURSIVE allocate_boxes_in_wave(_, _, _)
allocate_boxes_in_wave(bxs, w, allocated) ==
    IF bxs = <<>> THEN [wave |-> w, allocated |-> allocated]
    ELSE IF ~InSeq(Head(bxs), allocated)
         THEN allocate_boxes_in_wave(Tail(bxs),
                  Wave(w.index, Append(w.boxes, Head(bxs))),
                  Append(allocated, Head(bxs)))
         ELSE allocate_boxes_in_wave(Tail(bxs), w, allocated)

\* raised: the loop over remaining_boxes reads the local `wave`, which no
\* branch has bound (UnboundLocalError)
fill_wave_from_sku_info(info, prev, allocated) ==
    With(OpenNextWave(prev), LAMBDA nxt :
    With(SelectSeq(info.boxes, LAMBDA b : ~InSeq(b, allocated)), LAMBDA remaining_boxes :
    With(TotalOfBoxes(remaining_boxes), LAMBDA total_of_boxes :
    With(FitsInWave(total_of_boxes, prev), LAMBDA in_prev :
    With(~in_prev /\ FitsInWave(total_of_boxes, nxt), LAMBDA in_next :
    With(allocate_boxes_in_wave(remaining_boxes,
                                IF in_prev THEN prev ELSE nxt, allocated),
         LAMBDA placed :
         IF in_prev \/ in_next
         THEN [raised |-> FALSE,
               previous_wave |-> IF in_prev THEN placed.wave ELSE prev,
               next_wave |-> IF in_next THEN placed.wave ELSE nxt,
               use_next_wave |-> in_next,
               boxes |-> <<>>,
               allocated |-> placed.allocated]
         ELSE [raised |-> remaining_boxes # <<>>,
               previous_wave |-> prev,
               next_wave |-> nxt,
               use_next_wave |-> FALSE,
               boxes |-> remaining_boxes,
               allocated |-> allocated]))))))

\* ------------------------------------------------------------------------
\* GreedyBuilder.try_swap_boxes_across_waves
\* ------------------------------------------------------------------------
\* check_if_box_skus_appears_in_other_waves
check_if_box_skus_appears_in_other_waves(box, other_waves) ==
    \E i \in 1..Len(other_waves) :
       With(<<Wave(2 * Len(other_waves) + 3, <<box>>), other_waves[i]>>, LAMBDA ws :
       With(DistributionKeys(ws), LAMBDA keys :
            \E k \in 1..Len(keys) : DistributionCount(ws, keys[k]) > 1))

\* the first loop over destination_wave.boxes (create enough space in the
\* destination wave), from position i on
RECURSIVE SelectBoxesToSwap(_, _, _, _)
SelectBoxesToSwap(c, i, boxes_to_swap, swap_total) ==
    IF i > Len(c.dest_boxes)
    THEN [possible_to_swap |-> FALSE, boxes_to_swap |-> boxes_to_swap,
          swap_total |-> swap_total]
    ELSE With(c.dest_boxes[i], LAMBDA box :
         IF SharesSku(box, c.list_of_boxes)
         THEN SelectBoxesToSwap(c, i + 1, boxes_to_swap, swap_total)
         ELSE IF check_if_box_skus_appears_in_other_waves(box, c.other_waves)
         THEN SelectBoxesToSwap(c, i + 1, boxes_to_swap, swap_total)
         ELSE With(swap_total + BoxTotal(box) <= c.new_capacity, LAMBDA fits :
              With(IF fits THEN Append(boxes_to_swap, box) ELSE boxes_to_swap,
                   LAMBDA bts :
              With(IF fits THEN swap_total + BoxTotal(box) ELSE swap_total,
                   LAMBDA st :
                   IF st >= c.total_to_accept /\ bts # <<>>
                   THEN [possible_to_swap |-> TRUE, boxes_to_swap |-> bts,
                         swap_total |-> st]
                   ELSE SelectBoxesToSwap(c, i + 1, bts, st)))))

\* the `while appended` loop: destination boxes linked by a sku to a box of
\* the origin wave
RECURSIVE CollectLeftovers(_, _, _, _)
CollectLeftovers(origin_boxes, dest_boxes, boxes_to_swap, leftovers) ==
    With(SelectSeq(dest_boxes, LAMBDA b : ~InSeq(b, boxes_to_swap \o leftovers)),
         LAMBDA remaining_boxes :
    With(SelectSeq(remaining_boxes, LAMBDA b : SharesSku(b, origin_boxes)),
         LAMBDA linked :
         IF linked = <<>> THEN leftovers
         ELSE CollectLeftovers(origin_boxes, dest_boxes, boxes_to_swap,
                               leftovers \o linked)))

\* a commit that leaves list_of_boxes in the origin wave as well
CommitSwap_keeps_moved_boxes(list_of_boxes, origin_wave, destination_wave, boxes_to_swap) ==
    [swapped |-> TRUE,
     origin |-> Wave(origin_wave.index, origin_wave.boxes \o boxes_to_swap),
     destination |-> Wave(destination_wave.index,
                     SelectSeq(destination_wave.boxes,
                               LAMBDA b : ~InSeq(b, boxes_to_swap))
                         \o list_of_boxes)]

\* the commit of a swap (lines 310-321)
CommitSwap(list_of_boxes, origin_wave, destination_wave, boxes_to_swap) ==
    [swapped |-> TRUE,
     origin |-> Wave(origin_wave.index,
                     SelectSeq(origin_wave.boxes, LAMBDA b : ~InSeq(b, list_of_boxes))
                         \o boxes_to_swap),
     destination |-> Wave(destination_wave.index,
                     SelectSeq(destination_wave.boxes,
                               LAMBDA b : ~InSeq(b, boxes_to_swap))
                         \o list_of_boxes)]

\* the result of the first loop over destination_wave.boxes (lines 243-264)
FirstSelection(list_of_boxes, origin_wave, destination_wave, self_waves) ==
    With(TotalOfBoxes(list_of_boxes), LAMBDA total_to_move :
    With(total_to_move - RemainingCapacity(destination_wave), LAMBDA shortfall :
         SelectBoxesToSwap(
             [dest_boxes |-> destination_wave.boxes,
              list_of_boxes |-> list_of_boxes,
              other_waves |-> SelectSeq(self_waves,
                                 LAMBDA w : w # origin_wave /\ w # destination_wave),
              new_capacity |-> RemainingCapacity(origin_wave) + total_to_move,
              total_to_accept |-> IF shortfall > 0 THEN shortfall ELSE 0],
             1, <<>>, 0)))

\* a swap made step by step: list_of_boxes goes to the destination first, the
\* boxes to give back are looked for afterwards, and a failure leaves
\* list_of_boxes where it was put
try_swap_boxes_across_waves_incremental(list_of_boxes, origin_wave, destination_wave, self_waves) ==
    With(FirstSelection(list_of_boxes, origin_wave, destination_wave, self_waves),
         LAMBDA first :
         IF first.possible_to_swap
         THEN CommitSwap(list_of_boxes, origin_wave, destination_wave,
                         first.boxes_to_swap)
         ELSE [swapped |-> FALSE,
               origin |-> CommitSwap(list_of_boxes, origin_wave, destination_wave,
                                     <<>>).origin,
               destination |-> CommitSwap(list_of_boxes, origin_wave,
                                          destination_wave, <<>>).destination])

\* self_waves: self.waves
try_swap_boxes_across_waves(list_of_boxes, origin_wave, destination_wave, self_waves) ==
    With([swapped |-> FALSE, origin |-> origin_wave,
          destination |-> destination_wave], LAMBDA unchanged :
    With(TotalOfBoxes(list_of_boxes), LAMBDA total_to_move :
    With(RemainingCapacity(origin_wave) + total_to_move, LAMBDA new_capacity :
    With(total_to_move - RemainingCapacity(destination_wave), LAMBDA shortfall :
    With(IF shortfall > 0 THEN shortfall ELSE 0, LAMBDA total_to_accept :
    With(SelectSeq(self_waves, LAMBDA w : w # origin_wave /\ w # destination_wave),
         LAMBDA other_waves :
    With(SelectBoxesToSwap([dest_boxes |-> destination_wave.boxes,
                            list_of_boxes |-> list_of_boxes,
                            other_waves |-> other_waves,
                            new_capacity |-> new_capacity,
                            total_to_accept |-> total_to_accept], 1, <<>>, 0),
         LAMBDA first :
    With(CollectLeftovers(origin_wave.boxes, destination_wave.boxes,
                          first.boxes_to_swap, <<>>), LAMBDA leftovers :
    With(first.boxes_to_swap \o leftovers, LAMBDA boxes_to_swap :
    With(SelectSeq(destination_wave.boxes, LAMBDA b : ~InSeq(b, boxes_to_swap)),
         LAMBDA remaining_boxes :
         IF total_to_accept > new_capacity THEN unchanged
         ELSE IF ~first.possible_to_swap THEN unchanged
         ELSE IF TotalOfBoxes(leftovers) + first.swap_total > new_capacity
              THEN unchanged
         ELSE IF \E i \in 1..Len(leftovers) :
                    check_if_box_skus_appears_in_other_waves(leftovers[i], other_waves)
              THEN unchanged
         ELSE IF \E i \in 1..Len(remaining_boxes) :
                    SharesSku(remaining_boxes[i], boxes_to_swap)
              THEN unchanged
         ELSE CommitSwap(list_of_boxes, origin_wave, destination_wave,
                         boxes_to_swap)))))))))))

\* ------------------------------------------------------------------------
\* GreedyBuilder.cross_swap_boxes
\* ------------------------------------------------------------------------
BoxesWithSku(w, sku) == SelectSeq(w.boxes, LAMBDA b : InSeq(sku, BoxSkus(b)))

\* one pass of the `for sku, count in sku_distribution.items()` loop, from
\* the k-th key on; the pass ends at the first swap
RECURSIVE CrossSwapScan(_, _, _, _, _)
CrossSwapScan(prev, nxt, both_ways, self_waves, k) ==
    With(DistributionKeys(<<prev, nxt>>), LAMBDA keys :
    IF k > Len(keys)
    THEN [changed |-> FALSE, previous_wave |-> prev, next_wave |-> nxt]
    ELSE IF DistributionCount(<<prev, nxt>>, keys[k]) <= 1
    THEN CrossSwapScan(prev, nxt, both_ways, self_waves, k + 1)
    ELSE
    With(RemainingCapacity(prev) < RemainingCapacity(nxt), LAMBDA prev_is_origin :
    With(IF prev_is_origin THEN prev ELSE nxt, LAMBDA origin_wave :
    With(IF prev_is_origin THEN nxt ELSE prev, LAMBDA destination_wave :
    With(try_swap_boxes_across_waves(BoxesWithSku(origin_wave, keys[k]),
                                     origin_wave, destination_wave, self_waves),
         LAMBDA fwd :
    With(try_swap_boxes_across_waves(BoxesWithSku(destination_wave, keys[k]),
                                     destination_wave, origin_wave, self_waves),
         LAMBDA bwd :
         IF fwd.swapped
         THEN [changed |-> TRUE,
               previous_wave |-> IF prev_is_origin THEN fwd.origin
                                 ELSE fwd.destination,
               next_wave |-> IF prev_is_origin THEN fwd.destination
                             ELSE fwd.origin]
         ELSE IF both_ways /\ bwd.swapped
         THEN [changed |-> TRUE,
               previous_wave |-> IF prev_is_origin THEN bwd.destination
                                 ELSE bwd.origin,
               next_wave |-> IF prev_is_origin THEN bwd.origin
                             ELSE bwd.destination]
         ELSE CrossSwapScan(prev, nxt, both_ways, self_waves, k + 1)))))))

\* the waves of a list are mutated in place: a list holding the two wave
\* objects holds their new box lists
MutatedInPlace(ws, prev, nxt) ==
    [i \in 1..Len(ws) |->
        IF ws[i].index = prev.index THEN prev
        ELSE IF ws[i].index = nxt.index THEN nxt
        ELSE ws[i]]

\* the `while not changed` loop; scans counts the passes still allowed
RECURSIVE CrossSwapWhile(_, _, _, _, _, _)
CrossSwapWhile(changed, prev, nxt, both_ways, self_waves, scans) ==
    IF changed \/ scans = 0
    THEN [previous_wave |-> prev, next_wave |-> nxt]
    ELSE With(CrossSwapScan(prev, nxt, both_ways, self_waves, 1), LAMBDA r :
              CrossSwapWhile(r.changed, r.previous_wave, r.next_wave, both_ways,
                             MutatedInPlace(self_waves, r.previous_wave, r.next_wave),
                             scans - 1))

\* the loop entered: `changed = False` before it
cross_swap_boxes_entered(prev, nxt, both_ways, self_waves) ==
    CrossSwapWhile(FALSE, prev, nxt, both_ways, self_waves, MaxScans)

\* `changed = True` before the loop (line 192)
cross_swap_boxes(prev, nxt, both_ways, self_waves) ==
    CrossSwapWhile(TRUE, prev, nxt, both_ways, self_waves, MaxScans)

\* ------------------------------------------------------------------------
\* GreedyBuilder.refine_waves
\* ------------------------------------------------------------------------
\* the two nested enumerate loops, from the pair (i, j) on; ws is the list
\* `waves`, which build_waves passes as self.waves itself
RECURSIVE RefineFrom(_, _, _)
RefineFrom(ws, i, j) ==
    IF i > Len(ws) THEN ws
    ELSE IF j > Len(ws) THEN RefineFrom(ws, i + 1, 1)
    ELSE IF i = j THEN RefineFrom(ws, i, j + 1)
    ELSE With(cross_swap_boxes(ws[i], ws[j], TRUE, ws), LAMBDA r :
              RefineFrom([ws EXCEPT ![i] = r.previous_wave, ![j] = r.next_wave],
                         i, j + 1))

refine_waves(ws) == RefineFrom(ws, 1, 1)

\* ------------------------------------------------------------------------
\* Inputs
\* ------------------------------------------------------------------------
Item(sku, quantity) == [sku |-> sku, quantity |-> quantity]

\* the contents of a box of at most t units whose skus are not in used
RECURSIVE ContentsWithin(_, _)
ContentsWithin(t, used) ==
    {<<>>} \cup
    UNION {{<<Item(sku, q)>> \o rest : rest \in ContentsWithin(t - q, used \cup {sku})} :
              sku \in Range(SKUS) \ used, q \in 1..t}

ContentTotal(c) == SumSeq([i \in 1..Len(c) |-> c[i].quantity])

\* the skus of content c that are not among the first k of SKUS, in order
NewSkus(c, k) ==
    SelectSeq([j \in 1..Len(c) |-> c[j].sku],
              LAMBDA sku : \A i \in 1..k : SKUS[i] # sku)

\* skus are opaque strings: an input names them in order of first occurrence
CanonicalSkus(c, k) == NewSkus(c, k) = SubSeq(SKUS, k + 1, k + Len(NewSkus(c, k)))

\* the lists of at most n box contents holding at most t units together,
\* k skus being named already; empties: whether a box may hold no item
RECURSIVE ContentLists(_, _, _, _)
ContentLists(n, t, k, empties) ==
    IF n = 0 THEN {<<>>}
    ELSE {<<>>} \cup
         UNION {{<<c>> \o rest :
                   rest \in ContentLists(n - 1, t - ContentTotal(c),
                                         k + Len(NewSkus(c, k)), empties)} :
                   c \in {d \in ContentsWithin(t, {}) :
                            CanonicalSkus(d, k) /\ (empties \/ d # <<>>)}}

MakeBoxes(cs) == [i \in 1..Len(cs) |-> [box_id |-> i, content |-> cs[i]]]

BoxLists == ContentLists(MaxBoxes, MaxUnits, 0, TRUE)

\* Box1{A:5}, Box2{A:3, B:2}, Box3{B:4}, capacity 8
Scenario1 ==
    [boxes |-> MakeBoxes(<< <<Item("A", 5)>>, <<Item("A", 3), Item("B", 2)>>,
                            <<Item("B", 4)>> >>),
     max_capacity |-> 8]

\* four boxes, each a sku of its own, each holding the capacity
Scenario3 ==
    [boxes |-> MakeBoxes(<< <<Item("A", 2)>>, <<Item("B", 2)>>, <<Item("C", 2)>>,
                            <<Item("D", 2)>> >>),
     max_capacity |-> 2]

Inputs ==
    {[boxes |-> MakeBoxes(cs), max_capacity |-> m] :
        cs \in BoxLists, m \in 1..MaxCapacity} \cup {Scenario1, Scenario3}

SortConfigs ==
    {<<"cluster", "max">>, <<"similarity", "max">>, <<"similarity", "mean">>,
     <<"similarity", "median">>}

\* last_call: op the method, i and j the positions in self.waves of its two
\* waves, list its list_of_boxes, both_ways its flag, before the value of
\* self.waves at the call, swapped the result of try_swap_boxes_across_waves,
\* rerun whether refine_waves ran on the very result of refine_waves
NoCall ==
    [op |-> "none", i |-> 0, j |-> 0, list |-> <<>>, both_ways |-> FALSE,
     before |-> <<>>, swapped |-> FALSE, rerun |-> FALSE]

NoInfo == [sku |-> "", boxes |-> <<>>]

\* sheet: called whether save_result was called, at the value of pc at that
\* call, was_none whether the solver's waves were None then, raised whether
\* the call raised ValueError, written whether to_excel ran, rows the
\* (Caixa Id, Onda) rows it wrote
NoSheet ==
    [called |-> FALSE, at |-> "", was_none |-> FALSE, raised |-> FALSE,
     written |-> FALSE, rows |-> <<>>]

\* ------------------------------------------------------------------------
\* The builder: construction, build_waves
\* ------------------------------------------------------------------------
\* GreedyBuilder.__init__
Init ==
    \E inp \in Inputs, cfg \in SortConfigs :
        /\ boxes = inp.boxes
        /\ max_capacity = inp.max_capacity
        /\ sort_method = cfg[1]
        /\ aggregation_method = cfg[2]
        /\ skus_info_copy = <<>>
        /\ allocated_boxes = <<>>
        /\ allocated_skus = <<>>
        /\ waves = <<>>
        /\ previous_wave = NoWave
        /\ next_wave = NoWave
        /\ use_next_wave = FALSE
        /\ previous_sku = ""
        /\ sku_info = NoInfo
        /\ pc = "start"
        /\ last_call = NoCall
        /\ solver_waves = "None"
        /\ sheet = NoSheet

\* build_initial_waves, lines 102-106
BeginBuild ==
    /\ pc = "start"
    /\ previous_wave' = Wave(0, <<>>)
    /\ skus_info_copy' = build_sku_info(boxes)
    /\ previous_sku' = ""
    /\ pc' = "loop"
    /\ UNCHANGED <<boxes, max_capacity, sort_method, aggregation_method, sheet,
                   solver_waves,
                   allocated_boxes, allocated_skus, waves, next_wave,
                   use_next_wave, sku_info, last_call>>

\* the entries of skus_info_copy after the sort of lines 109-115
SortedInfos ==
    SortSkusInfo(skus_info_copy, previous_wave, previous_sku, sort_method,
                 aggregation_method)

\* one loop iteration up to the return of fill_wave_from_sku_info (lines 108-121)
FillStep ==
    /\ pc = "loop"
    /\ skus_info_copy # <<>>
    /\ \E sorted \in {SortedInfos} :
       \E r \in {fill_wave_from_sku_info(Head(sorted), previous_wave,
                                         allocated_boxes)} :
          /\ ~r.raised
          /\ skus_info_copy' = Tail(sorted)
          /\ sku_info' = [sku |-> Head(sorted).sku, boxes |-> r.boxes]
          /\ previous_wave' = r.previous_wave
          /\ next_wave' = r.next_wave
          /\ use_next_wave' = r.use_next_wave
          /\ allocated_boxes' = r.allocated
          /\ pc' = "swap"
    /\ UNCHANGED <<boxes, max_capacity, sort_method, aggregation_method, sheet,
                   solver_waves,
                   allocated_skus, waves, previous_sku, last_call>>

\* the same iteration when fill_wave_from_sku_info reads the unbound `wave`
\* (line 178): the exception leaves build_waves
FillRaises ==
    /\ pc = "loop"
    /\ skus_info_copy # <<>>
    /\ \E sorted \in {SortedInfos} :
          /\ fill_wave_from_sku_info(Head(sorted), previous_wave,
                                     allocated_boxes).raised
          /\ skus_info_copy' = Tail(sorted)
          /\ sku_info' = Head(sorted)
    /\ pc' = "UnboundLocalError"
    /\ UNCHANGED <<boxes, max_capacity, sort_method, aggregation_method, sheet,
                   solver_waves,
                   allocated_boxes, allocated_skus, waves, previous_wave,
                   next_wave, use_next_wave, previous_sku, last_call>>

\* line 123
SwapStep ==
    /\ pc = "swap"
    /\ \E r \in {cross_swap_boxes(previous_wave, next_wave, TRUE, waves)} :
          /\ previous_wave' = r.previous_wave
          /\ next_wave' = r.next_wave
    /\ pc' = "book"
    /\ UNCHANGED <<boxes, max_capacity, sort_method, aggregation_method, sheet,
                   solver_waves,
                   skus_info_copy, allocated_boxes, allocated_skus, waves,
                   use_next_wave, previous_sku, sku_info, last_call>>

\* the sku of the first entry of sku_count_as_list after its sort by count,
\* descending and stable (lines 134-144)
RECURSIVE FirstMaxCount(_, _)
FirstMaxCount(w, keys) ==
    IF Len(keys) = 1 THEN keys[1]
    ELSE With(FirstMaxCount(w, Tail(keys)), LAMBDA m :
              IF SkuCount(w, Head(keys)) >= SkuCount(w, m) THEN Head(keys) ELSE m)

ReseedPreviousSku(w, done_skus) ==
    With(SelectSeq(SkuCountKeys(w), LAMBDA s : ~InSeq(s, done_skus)), LAMBDA keys :
         IF keys = <<>> THEN "" ELSE FirstMaxCount(w, keys))

\* lines 125-144
BookStep ==
    /\ pc = "book"
    /\ \E done_skus \in {IF sku_info.boxes # <<>> THEN allocated_skus
                          ELSE Append(allocated_skus, sku_info.sku)} :
          /\ allocated_skus' = done_skus
          /\ skus_info_copy' = IF sku_info.boxes # <<>>
                               THEN Append(skus_info_copy, sku_info)
                               ELSE skus_info_copy
          /\ IF use_next_wave
             THEN /\ waves' = Append(waves, previous_wave)
                  /\ previous_wave' = next_wave
                  /\ previous_sku' = ReseedPreviousSku(next_wave, done_skus)
             ELSE /\ previous_sku' = sku_info.sku
                  /\ UNCHANGED <<waves, previous_wave>>
    /\ next_wave' = NoWave
    /\ pc' = "loop"
    /\ UNCHANGED <<boxes, max_capacity, sort_method, aggregation_method, sheet,
                   solver_waves,
                   allocated_boxes, use_next_wave, sku_info, last_call>>

\* the return with the current wave appended to self.waves first
ReturnInitialWaves_appends_current ==
    /\ pc = "loop"
    /\ skus_info_copy = <<>>
    /\ Len(allocated_boxes) >= Len(boxes)
    /\ waves' = Append(waves, previous_wave)
    /\ previous_wave' = NoWave
    /\ pc' = "refine"
    /\ UNCHANGED <<boxes, max_capacity, sort_method, aggregation_method, sheet,
                   solver_waves,
                   skus_info_copy, allocated_boxes, allocated_skus,
                   next_wave, use_next_wave, previous_sku, sku_info, last_call>>

\* lines 146-149, all boxes allocated: build_initial_waves returns self.waves
ReturnInitialWaves ==
    /\ pc = "loop"
    /\ skus_info_copy = <<>>
    /\ Len(allocated_boxes) >= Len(boxes)
    /\ previous_wave' = NoWave
    /\ pc' = "refine"
    /\ UNCHANGED <<boxes, max_capacity, sort_method, aggregation_method, sheet,
                   solver_waves,
                   skus_info_copy, allocated_boxes, allocated_skus, waves,
                   next_wave, use_next_wave, previous_sku, sku_info, last_call>>

\* lines 146-147: ValueError("Not all boxes allocated in waves")
RaiseNotAllocated ==
    /\ pc = "loop"
    /\ skus_info_copy = <<>>
    /\ Len(allocated_boxes) < Len(boxes)
    /\ pc' = "ValueError"
    /\ UNCHANGED <<boxes, max_capacity, sort_method, aggregation_method, sheet,
                   solver_waves,
                   skus_info_copy, allocated_boxes, allocated_skus, waves,
                   previous_wave, next_wave, use_next_wave, previous_sku,
                   sku_info, last_call>>

\* build_waves, lines 358-360, and the assignment of its result to
\* WavesProblemSolver.waves by solve (solver.py 57)
RefineStep ==
    /\ pc = "refine"
    /\ waves' = refine_waves(waves)
    /\ solver_waves' = "waves"
    /\ pc' = "returned"
    /\ UNCHANGED <<boxes, max_capacity, sort_method, aggregation_method, sheet,
                   skus_info_copy, allocated_boxes, allocated_skus,
                   previous_wave, next_wave, use_next_wave, previous_sku,
                   sku_info, last_call>>

\* ------------------------------------------------------------------------
\* Calls on the builder once build_waves has returned (pc = "returned"), or
\* on a builder whose self.waves is an arbitrary valid wave set (pc = "idle")
\* ------------------------------------------------------------------------
\* the builder receives one call once its waves stand; refine_waves may be
\* run again on its own result
Callable(op) ==
    /\ pc \in {"returned", "idle"}
    /\ \/ last_call.op = "none"
       \/ op = "refine_waves" /\ last_call.op = "refine_waves"

build_frame ==
    <<boxes, max_capacity, sort_method, aggregation_method, skus_info_copy,
      allocated_boxes, allocated_skus, previous_wave, next_wave, use_next_wave,
      previous_sku, sku_info, pc, solver_waves, sheet>>

\* refine_waves(self.waves)
CallRefineWaves ==
    /\ Callable("refine_waves")
    /\ waves' = refine_waves(waves)
    /\ last_call' = [op |-> "refine_waves", i |-> 0, j |-> 0, list |-> <<>>,
                     both_ways |-> TRUE, before |-> waves, swapped |-> FALSE,
                     rerun |-> \/ last_call.op = "refine_waves"
                               \/ pc = "returned" /\ last_call.op = "none"]
    /\ UNCHANGED build_frame

\* cross_swap_boxes(self.waves[i], self.waves[j], both_ways)
CallCrossSwap ==
    /\ Callable("cross_swap_boxes")
    /\ \E i, j \in 1..Len(waves), both_ways \in BOOLEAN :
          /\ i # j
          /\ \E r \in {cross_swap_boxes(waves[i], waves[j], both_ways, waves)} :
                waves' = [waves EXCEPT ![i] = r.previous_wave, ![j] = r.next_wave]
          /\ last_call' = [op |-> "cross_swap_boxes", i |-> i, j |-> j,
                           list |-> <<>>, both_ways |-> both_ways,
                           before |-> waves, swapped |-> FALSE, rerun |-> FALSE]
    /\ UNCHANGED build_frame

\* try_swap_boxes_across_waves(list_of_boxes, self.waves[i], self.waves[j]),
\* list_of_boxes being any boxes of the origin wave, in the wave's order
CallTrySwap ==
    /\ Callable("try_swap_boxes_across_waves")
    /\ \E i, j \in 1..Len(waves) :
          /\ i # j
          /\ \E list_of_boxes \in {SelectSeq(waves[i].boxes, LAMBDA b : b \in chosen) :
                                        chosen \in SUBSET Range(waves[i].boxes)} :
             \E r \in {try_swap_boxes_across_waves(list_of_boxes, waves[i],
                                                  waves[j], waves)} :
                /\ waves' = [waves EXCEPT ![i] = r.origin, ![j] = r.destination]
                /\ last_call' = [op |-> "try_swap_boxes_across_waves",
                                 i |-> i, j |-> j, list |-> list_of_boxes,
                                 both_ways |-> FALSE, before |-> waves,
                                 swapped |-> r.swapped, rerun |-> FALSE]
    /\ UNCHANGED build_frame

\* ------------------------------------------------------------------------
\* WavesProblemSolver.save_result (io.save_result, io.parse_waves_to_sheet)
\* ------------------------------------------------------------------------
\* parse_waves_to_sheet: one row (box_id, wave index) per box, wave by wave
parse_waves_to_sheet(ws) ==
    Flatten([w \in 1..Len(ws) |->
                [k \in 1..Len(ws[w].boxes) |-> <<ws[w].boxes[k], ws[w].index>>]])

\* save_result without the test of lines 58-59
save_result_unchecked(sw, ws) ==
    [raised |-> FALSE, written |-> TRUE, rows |-> parse_waves_to_sheet(ws)]

\* io.save_result(sheet_name, waves=sw), ws being the waves sw refers to
save_result(sw, ws) ==
    IF sw = "None"
    THEN [raised |-> TRUE, written |-> FALSE, rows |-> <<>>]
    ELSE [raised |-> FALSE, written |-> TRUE, rows |-> parse_waves_to_sheet(ws)]

\* WavesProblemSolver.save_result, called while no solve() is running: before
\* it, after it returned, or after it raised
SaveResult ==
    /\ pc \in {"start", "returned", "ValueError", "UnboundLocalError"}
    /\ ~sheet.written
    /\ sheet.at # pc
    /\ \E r \in {save_result(solver_waves, waves)} :
          sheet' = [called |-> TRUE, at |-> pc, was_none |-> solver_waves = "None",
                    raised |-> r.raised, written |-> r.written, rows |-> r.rows]
    /\ UNCHANGED <<boxes, max_capacity, sort_method, aggregation_method,
                   skus_info_copy, allocated_boxes, allocated_skus, waves,
                   previous_wave, next_wave, use_next_wave, previous_sku,
                   sku_info, pc, last_call, solver_waves>>

Next ==
    \/ BeginBuild
    \/ FillStep
    \/ FillRaises
    \/ SwapStep
    \/ BookStep
    \/ ReturnInitialWaves
    \/ RaiseNotAllocated
    \/ RefineStep
    \/ CallRefineWaves
    \/ CallCrossSwap
    \/ CallTrySwap
    \/ SaveResult

Spec == Init /\ [][Next]_vars

\* ------------------------------------------------------------------------
\* The refinement methods on arbitrary wave sets: the boxes of the input, in
\* list order, cut into two or three non-empty waves, each within
\* max_capacity.  The box lists come in every order, so the waves hold every
\* combination of boxes in every order.  No box is empty: allocation never
\* places a box that holds no item.
\* ------------------------------------------------------------------------
WaveCounts == {2, 3}

\* the waves 0..k-1 holding the boxes as f assigns them
Arrange(bxs, k, f) ==
    [w \in 1..k |->
        Wave(w - 1, SelectSeq([i \in 1..Len(bxs) |-> bxs[i].box_id],
                              LAMBDA id : f[id] = w))]

PairBoxLists == ContentLists(MaxPairBoxes, MaxPairUnits, 0, FALSE)

\* the cuts of 1..n into k consecutive non-empty segments
Cuts(n, k) ==
    {f \in [1..n -> 1..k] :
        /\ n >= k
        /\ f[1] = 1
        /\ f[n] = k
        /\ \A i \in 1..(n - 1) : f[i + 1] \in {f[i], f[i] + 1}}

InitPair ==
    \E cs \in PairBoxLists, m \in 1..MaxCapacity, k \in WaveCounts :
      \E f \in Cuts(Len(cs), k) :
        /\ boxes = MakeBoxes(cs)
        /\ max_capacity = m
        /\ waves = Arrange(MakeBoxes(cs), k, f)
        /\ \A w \in 1..k :
              SumSeq([i \in 1..Len(cs) |->
                        IF f[i] = w THEN ContentTotal(cs[i]) ELSE 0]) <= m
        /\ sort_method = "cluster"
        /\ aggregation_method = "max"
        /\ skus_info_copy = <<>>
        /\ allocated_boxes = [i \in 1..Len(cs) |-> i]
        /\ allocated_skus = <<>>
        /\ previous_wave = NoWave
        /\ next_wave = NoWave
        /\ use_next_wave = FALSE
        /\ previous_sku = ""
        /\ sku_info = NoInfo
        /\ pc = "idle"
        /\ last_call = NoCall
        /\ solver_waves = "None"
        /\ sheet = NoSheet

NextPair ==
    \/ CallRefineWaves
    \/ CallCrossSwap
    \/ CallTrySwap

SpecPair == InitPair /\ [][NextPair]_vars

\* ------------------------------------------------------------------------
\* Properties
\* ------------------------------------------------------------------------
\* the waves a build holds: the closed ones, the current one, the opened one
BuildWaves == waves \o <<previous_wave, next_wave>>

\* how many times box id occurs in the waves ws
Occurrences(id, ws) ==
    SumSeq([w \in 1..Len(ws) |->
              Cardinality({k \in 1..Len(ws[w].boxes) : ws[w].boxes[k] = id})])

BoxIds == {boxes[i].box_id : i \in 1..Len(boxes)}

Ended == pc \in {"returned", "ValueError", "UnboundLocalError"}

\* the skus present in both waves
SharedSkus(a, b) == Range(SkuCountKeys(a)) \cap Range(SkuCountKeys(b))

\* C1: once build_waves has returned, every input box is in exactly one of
\* the returned waves.
C1_EveryBoxInOneReturnedWave ==
    pc = "returned" => \A id \in BoxIds : Occurrences(id, waves) = 1

\* C2: every wave of a build (closed, current, freshly opened) and of the
\* returned result holds at most max_capacity items, after every placement
\* and every committed swap.
C2_WithinCapacity ==
    \A w \in 1..Len(BuildWaves) : TotalItems(BuildWaves[w]) <= max_capacity

\* a swap was committed on waves the build filled, one of them now full
C2_Witness ==
    /\ last_call.op = "try_swap_boxes_across_waves"
    /\ last_call.swapped
    /\ last_call.list # <<>>
    /\ TotalItems(waves[last_call.j]) = max_capacity

\* C3: no box is held more than once by the waves of a build (closed,
\* current, freshly opened).
C3_NoBoxInTwoWaves ==
    \A id \in BoxIds : Occurrences(id, BuildWaves) <= 1

\* the current wave and the freshly opened one both hold boxes, and a box
\* already placed is still listed by the entry of another of its skus
C3_Witness ==
    /\ pc = "swap"
    /\ use_next_wave
    /\ previous_wave.boxes # <<>>
    /\ next_wave.boxes # <<>>
    /\ \E k \in 1..Len(skus_info_copy) :
          \E b \in 1..Len(skus_info_copy[k].boxes) :
             InSeq(skus_info_copy[k].boxes[b], allocated_boxes)

\* C4: the returned waves carry the indices 0, 1, ..., n-1 in order.
C4_DenseIndices ==
    pc \in {"refine", "returned"} =>
        \A k \in 1..Len(waves) : waves[k].index = k - 1

C4_Witness == pc = "returned" /\ Len(waves) >= 2 /\ last_call.op = "none"

\* C5: when every box holds at most max_capacity items, the build raises
\* no error.
C5_NoFailureWhenBoxesFit ==
    (\A id \in BoxIds : BoxTotal(id) <= max_capacity) =>
        pc \notin {"UnboundLocalError", "ValueError"}

\* C6: when some box holds more than max_capacity items, the build ends
\* only by raising 'Not all boxes allocated in waves'.
C6_OversizedBoxRaisesValueError ==
    (\E id \in BoxIds : BoxTotal(id) > max_capacity) =>
        pc \notin {"UnboundLocalError", "refine", "returned"}

\* C7: cross_swap_boxes leaves no more skus present in both of its waves
\* than there were before the call.
C7_CrossSwapMonotonic ==
    last_call.op = "cross_swap_boxes" =>
        Cardinality(SharedSkus(waves[last_call.i], waves[last_call.j]))
            <= Cardinality(SharedSkus(last_call.before[last_call.i],
                                      last_call.before[last_call.j]))

\* cross_swap_boxes was applied to two waves that share a sku
C7_Witness ==
    /\ last_call.op = "cross_swap_boxes"
    /\ SharedSkus(last_call.before[last_call.i], last_call.before[last_call.j]) # {}

\* C8: refine_waves applied to the result of refine_waves changes no wave.
C8_RefineIdempotent ==
    (last_call.op = "refine_waves" /\ last_call.rerun) => waves = last_call.before

\* refine_waves was run again on waves of which two share a sku
C8_Witness ==
    /\ last_call.op = "refine_waves"
    /\ last_call.rerun
    /\ \E a, b \in 1..Len(waves) : a # b /\ SharedSkus(waves[a], waves[b]) # {}

\* C9: when cross_swap_boxes returns, a scan of the skus present in both
\* waves finds no swap that try_swap_boxes_across_waves would commit.
C9_CrossSwapReachesFixedPoint ==
    last_call.op = "cross_swap_boxes" =>
        ~CrossSwapScan(waves[last_call.i], waves[last_call.j],
                       last_call.both_ways, waves, 1).changed

\* C10: for Box1{A:5}, Box2{A:3, B:2}, Box3{B:4} and capacity 8 the build
\* returns two waves, one with Box1 and Box2 and one with Box3, with
\* fragmentation score 0.
C10_Scenario1 ==
    (boxes = Scenario1.boxes /\ max_capacity = Scenario1.max_capacity /\ Ended) =>
        /\ pc = "returned"
        /\ Len(waves) = 2
        /\ {Range(waves[1].boxes), Range(waves[2].boxes)} = {{1, 2}, {3}}
        /\ compute_sku_total_distribution(waves) = 0

\* C11: for boxes of pairwise disjoint skus, each holding exactly
\* max_capacity items, the build returns one wave per box, each wave full
\* (usage_ratio 1.0), with fragmentation score 0.
C11_OneFullWavePerBox ==
    (/\ Ended
     /\ \A id \in BoxIds : BoxTotal(id) = max_capacity
     /\ \A a, b \in BoxIds : a # b => ~SharesSku(a, <<b>>)) =>
        /\ pc = "returned"
        /\ Len(waves) = Len(boxes)
        /\ \A w \in 1..Len(waves) :
              Len(waves[w].boxes) = 1 /\ TotalItems(waves[w]) = max_capacity
        /\ compute_sku_total_distribution(waves) = 0

\* C12: for an empty box list build_waves raises no error and returns an
\* empty wave sequence.
C12_EmptyInput ==
    boxes = <<>> =>
        /\ pc \notin {"ValueError", "UnboundLocalError"}
        /\ pc \in {"refine", "returned"} => waves = <<>>

\* build_waves has returned on the empty box list
C12_Witness == boxes = <<>> /\ pc = "returned" /\ last_call.op = "none"

\* C13: save_result raises and writes nothing whenever the solver's waves
\* are None, which is so until a solve() has completed (also after a build
\* that raised); rows are written only once build_waves has returned.
C13_SaveNeedsCompletedBuild ==
    /\ solver_waves = "None" <=> pc # "returned"
    /\ sheet.called /\ sheet.at # "returned" =>
          sheet.was_none /\ sheet.raised /\ ~sheet.written /\ sheet.rows = <<>>
    /\ sheet.written => sheet.at = "returned" /\ pc = "returned"

\* save_result was called after a build that raised
C13_Witness ==
    sheet.called /\ sheet.at \in {"ValueError", "UnboundLocalError"}

\* the last call was try_swap_boxes_across_waves and it committed a swap
SwapCommitted == last_call.op = "try_swap_boxes_across_waves" /\ last_call.swapped

\* C14: a committed swap keeps the boxes of the pair: origin and destination
\* hold together the same boxes as before, each of them once, and
\* list_of_boxes is in the destination.
C14_SwapConservesBoxes ==
    SwapCommitted =>
        With(<<waves[last_call.i], waves[last_call.j]>>, LAMBDA after :
        With(<<last_call.before[last_call.i], last_call.before[last_call.j]>>,
             LAMBDA before :
             /\ Range(after[1].boxes) \cup Range(after[2].boxes)
                   = Range(before[1].boxes) \cup Range(before[2].boxes)
             /\ \A id \in Range(before[1].boxes) \cup Range(before[2].boxes) :
                   Occurrences(id, after) = 1
             /\ Range(last_call.list) \subseteq Range(after[2].boxes)))

\* a committed swap moved boxes both ways
C14_Witness ==
    /\ SwapCommitted
    /\ last_call.list # <<>>
    /\ Range(waves[last_call.i].boxes)
          \cap Range(last_call.before[last_call.j].boxes) # {}

\* the last call was try_swap_boxes_across_waves and it returned False
SwapRefused == last_call.op = "try_swap_boxes_across_waves" /\ ~last_call.swapped

\* C15: when try_swap_boxes_across_waves returns False every wave holds
\* exactly the boxes it held before the call, in the same order.
C15_RefusedSwapChangesNothing ==
    SwapRefused => waves = last_call.before

\* a swap was refused after boxes to give back had been selected: a check
\* made after the first loop failed
C15_Witness ==
    /\ SwapRefused
    /\ last_call.list # <<>>
    /\ FirstSelection(last_call.list, last_call.before[last_call.i],
                      last_call.before[last_call.j],
                      last_call.before).possible_to_swap

\* the skus shared by origin and destination before the last call whose
\* origin boxes are exactly its list_of_boxes
FragmentedSkusMoved ==
    {sku \in SharedSkus(last_call.before[last_call.i],
                        last_call.before[last_call.j]) :
        last_call.list = BoxesWithSku(last_call.before[last_call.i], sku)}

\* C16: a swap committed for the origin boxes of a sku shared by the two
\* waves leaves no more skus present in both waves than before.
C16_SwapNeverFragments ==
    (SwapCommitted /\ FragmentedSkusMoved # {}) =>
        Cardinality(SharedSkus(waves[last_call.i], waves[last_call.j]))
            <= Cardinality(SharedSkus(last_call.before[last_call.i],
                                      last_call.before[last_call.j]))

\* C17: a swap committed for the origin boxes of a sku shared by the two
\* waves unites that sku in the destination: afterwards the origin holds no
\* box with it, and no box given back to the origin shares a sku with the
\* boxes moved in.
C17_SwapConsolidatesSku ==
    (SwapCommitted /\ FragmentedSkusMoved # {}) =>
        /\ \A sku \in FragmentedSkusMoved :
              BoxesWithSku(waves[last_call.i], sku) = <<>>
        /\ \A k \in 1..Len(waves[last_call.i].boxes) :
              InSeq(waves[last_call.i].boxes[k],
                    last_call.before[last_call.j].boxes) =>
                  ~SharesSku(waves[last_call.i].boxes[k], last_call.list)

\* a swap was committed for the origin boxes of a shared sku and that sku is
\* still in the origin wave
SwapsKeepSkuSplit ==
    (SwapCommitted /\ FragmentedSkusMoved # {}) =>
        \A sku \in FragmentedSkusMoved : BoxesWithSku(waves[last_call.i], sku) # <<>>

\* the boxes of the entry picked last that are in no wave
PickedRemaining == SelectSeq(sku_info.boxes, LAMBDA b : ~InSeq(b, allocated_boxes))

\* the allocation step has just handled an entry whose boxes fit neither the
\* current wave nor a fresh one
PickedFitsNowhere ==
    /\ pc \in {"swap", "UnboundLocalError"}
    /\ PickedRemaining # <<>>
    /\ ~FitsInWave(TotalOfBoxes(PickedRemaining), previous_wave)
    /\ ~FitsInWave(TotalOfBoxes(PickedRemaining), OpenNextWave(previous_wave))

\* C18: when the boxes of the picked entry fit neither the current wave nor
\* a fresh one, the step raises nothing, places none of them, opens no wave
\* transition and keeps the entry, with those boxes, for a later pass.
C18_UnfitEntryRequeued ==
    PickedFitsNowhere =>
        /\ pc = "swap"
        /\ ~use_next_wave
        /\ next_wave.boxes = <<>>
        /\ sku_info.boxes = PickedRemaining

\* C19: at every iteration of the allocation loop the entries of the working
\* list hold no box that is already placed in a wave.
C19_EntriesHoldUnallocatedBoxes ==
    pc = "loop" =>
        \A k \in 1..Len(skus_info_copy) :
           \A b \in 1..Len(skus_info_copy[k].boxes) :
              ~InSeq(skus_info_copy[k].boxes[b], allocated_boxes)

====
